---- MODULE Spec2Model ----
(***************************************************************************)
(* A model of the Anthropic API client: configuration and construction of  *)
(* the client, the four request operations as asynchronous calls that      *)
(* suspend at send() and at the read of the response body, and the JSON    *)
(* encoding and decoding that the serde derives of the data model define.  *)
(*                                                                         *)
(* Conventions.  An Option is a sequence: <<>> is None, <<x>> is Some(x).  *)
(* A Result of a decoder is an Option as well: <<>> is the error.  A       *)
(* string the code inspects character by character (the API key) is a      *)
(* sequence of one-character strings.  A text (a response body, an error   *)
(* message) is a sequence of atoms, so that format! is concatenation and   *)
(* "contains" is a sub-sequence test.  A JSON value is a record tagged by  *)
(* t: null, bool, num, str, arr (v a sequence) or obj (v a function from   *)
(* the keys that are present to their values).  A value of an enum with    *)
(* data is a record of the variant's name, tag, and its content, val.  In  *)
(* both, the tag is the field named first in this module, so that TLC      *)
(* compares two values by their tags before it compares their contents.    *)
(***************************************************************************)
EXTENDS Integers, Sequences, FiniteSets, TLC

VARIABLES
    env,        \* the process environment: ANTHROPIC_API_KEY
    config,     \* Option<Config>: the Config value the caller holds
    client,     \* Option<AnthropicClient>
    ctor,       \* the last construction or configuration call and its outcome
    tasks,      \* per task: the request operation in progress
    subject,    \* codec: the typed value at hand
    encoded,    \* codec: Option<JSON>, the encoding of subject
    decoded,    \* codec: Option<Result>, the decoding of encoded
    call        \* data model: the last function applied, its argument and
                \* what it returned

vars == <<env, config, client, ctor, tasks, subject, encoded, decoded, call>>

clientVars == <<env, config, client, ctor, tasks>>
codecVars == <<subject, encoded, decoded>>

---------------------------------------------------------------------------
(* Options *)

None == <<>>
Some(x) == <<x>>
IsSome(o) == o # <<>>
Unwrap(o) == o[1]

\* A call of a function of the data model: the function's name, which two
\* calls are compared by first, its argument and what it returned.  No
\* function has been applied yet.
NoApply == [fn |-> "none", arg |-> None, ret |-> None]

InitDataIdle == call = NoApply

---------------------------------------------------------------------------
(* JSON values *)

JNull == [t |-> "null", v |-> "null"]
JBool(b) == [t |-> "bool", v |-> b]
JNum(n) == [t |-> "num", v |-> n]
JStr(s) == [t |-> "str", v |-> s]
JArr(s) == [t |-> "arr", v |-> s]
JObj(f) == [t |-> "obj", v |-> f]

\* serde's derived Deserialize for a struct of n fields accepts a map, or a
\* sequence holding the n fields in declaration order.
IsStruct(j, n) == j.t = "obj" \/ (j.t = "arr" /\ Len(j.v) = n)

\* The value of the field named k, the i-th in declaration order: None when a
\* map has no such key.
Field(j, k, i) ==
    IF j.t = "obj"
    THEN IF k \in DOMAIN j.v THEN Some(j.v[k]) ELSE None
    ELSE Some(j.v[i])

\* A required String field.
StrField(j, k, i) ==
    LET f == Field(j, k, i)
    IN IF IsSome(f) /\ Unwrap(f).t = "str" THEN Some(Unwrap(f).v) ELSE None

\* An Option<String> field: a missing key and null are None; Some(None) is
\* returned for those, None for a value of another type.
OptStrField(j, k, i) ==
    LET f == Field(j, k, i)
    IN IF ~IsSome(f) \/ Unwrap(f).t = "null" THEN Some(None)
       ELSE IF Unwrap(f).t = "str" THEN Some(Some(Unwrap(f).v))
       ELSE None

\* A required bool field.
BoolField(j, k, i) ==
    LET f == Field(j, k, i)
    IN IF IsSome(f) /\ Unwrap(f).t = "bool" THEN Some(Unwrap(f).v) ELSE None

---------------------------------------------------------------------------
(* Version, ApiVersion, Config *)

ANTHROPIC_VERSION == "anthropic-version"
X_API_KEY == "x-api-key"
CONTENT_TYPE == "content-type"
ANTHROPIC_API_URL == "https://api.anthropic.com"

Version == {"Latest", "Initial"}

VersionToString(v) == IF v = "Latest" THEN "2023-06-01" ELSE "2023-01-01"

ApiVersionToString(v) == "v1"

\* The characters HeaderValue::from_str accepts: visible ASCII and tab.
VisibleAscii == {"s", "k", "-", "1", "2", "\t", " "}

\* str::parse::<HeaderValue>() succeeds.
ValidHeaderValue(s) == \A i \in 1..Len(s) : s[i] \in VisibleAscii

\* A key that is a header value, and one that is not.
ApiKeys == {<<"s", "k", "-", "1">>, <<"s", "k", "\n">>}

MockUrl == "http://127.0.0.1:8080"
BadUrl == "not a url"
BaseUrls == {MockUrl, BadUrl}

\* The URL the request is built with parses as an absolute URL.
ValidUrl(u) == u \in {ANTHROPIC_API_URL, MockUrl}

\* The environment variable: unset, set to bytes that are not Unicode, or set
\* to a string.
EnvUnset == [set |-> FALSE, unicode |-> FALSE, value |-> <<>>]
EnvNotUnicode == [set |-> TRUE, unicode |-> FALSE, value |-> <<>>]
EnvKey(k) == [set |-> TRUE, unicode |-> TRUE, value |-> k]
EnvValues == {EnvUnset, EnvNotUnicode} \cup {EnvKey(k) : k \in ApiKeys}

\* std::env::var
EnvVar(e) == IF e.set /\ e.unicode THEN Some(e.value) ELSE None

Config_new(api_key, api_url) ==
    [api_key |-> api_key, api_url |-> api_url,
     version |-> "Latest", api_version |-> "V1"]

Config_new_with_version(api_key, api_url, version) ==
    [api_key |-> api_key, api_url |-> api_url,
     version |-> version, api_version |-> "V1"]

Config_set_version(c, version) == [c EXCEPT !.version = version]

\* As Config_default, with an empty key when the variable cannot be read.
Config_default_EmptyKey(e) ==
    LET api_key == EnvVar(e)
    IN Some([api_key |-> IF IsSome(api_key) THEN Unwrap(api_key) ELSE <<>>,
             api_url |-> ANTHROPIC_API_URL,
             version |-> "Latest", api_version |-> "V1"])

Config_default(e) ==
    LET api_key == EnvVar(e)
    IN IF IsSome(api_key)
       THEN Some([api_key |-> Unwrap(api_key), api_url |-> ANTHROPIC_API_URL,
                  version |-> "Latest", api_version |-> "V1"])
       ELSE None

---------------------------------------------------------------------------
(* Header maps: a function from the names present to the values under the  *)
(* name, in insertion order.                                               *)

NoHeaders == <<>>

HeaderInsert(h, name, value) ==
    [n \in DOMAIN h \cup {name} |-> IF n = name THEN <<value>> ELSE h[n]]

HeaderAppend(h, name, value) ==
    [n \in DOMAIN h \cup {name} |->
        IF n = name
        THEN (IF n \in DOMAIN h THEN Append(h[n], value) ELSE <<value>>)
        ELSE h[n]]

\* The headers of the request on the wire: the request's own, and the
\* client's default headers under the names the request does not set.
MergeHeaders(defaults, own) ==
    [n \in DOMAIN defaults \cup DOMAIN own |->
        IF n \in DOMAIN own THEN own[n] ELSE defaults[n]]

HasHeader(h, name, value) == name \in DOMAIN h /\ h[name] = <<value>>

---------------------------------------------------------------------------
(* The data model and its serde encodings (mod.rs)                          *)

I32Max == 2147483647
I32Min == -I32Max - 1

\* A required i32 field: a JSON integer out of the i32 range is an error.
I32Field(j, k, i) ==
    LET f == Field(j, k, i)
    IN IF IsSome(f) /\ Unwrap(f).t = "num"
          /\ Unwrap(f).v >= I32Min /\ Unwrap(f).v <= I32Max
       THEN Some(Unwrap(f).v) ELSE None

\* A unit variant of an externally tagged enum: the variant's name as a
\* string, or a map of that one name to null.  names maps the JSON names to
\* the variants.
UnitVariant(j, names) ==
    IF j.t = "str"
    THEN IF j.v \in DOMAIN names THEN Some(names[j.v]) ELSE None
    ELSE IF j.t = "obj" /\ Cardinality(DOMAIN j.v) = 1
    THEN LET k == CHOOSE n \in DOMAIN j.v : TRUE
         IN IF k \in DOMAIN names /\ j.v[k].t = "null"
            THEN Some(names[k]) ELSE None
    ELSE None

\* The elements of a JSON array; none for another value.
Items(j) == IF j.t = "arr" THEN j.v ELSE <<>>

\* Vec<T>: a JSON array all of whose elements decode; results holds the
\* decoding of each element of Items(j).
DecodeVec(j, results) ==
    IF j.t = "arr" /\ \A i \in DOMAIN results : IsSome(results[i])
    THEN Some([i \in DOMAIN results |-> Unwrap(results[i])])
    ELSE None

(* Role *)

Role == {"User", "Assistant"}

\* As Role_serialize, with the variants' Rust names.
Role_serialize_NoRename(r) == IF r = "User" THEN JStr("User") ELSE JStr("Assistant")

Role_serialize(r) == IF r = "User" THEN JStr("user") ELSE JStr("assistant")

Role_deserialize(j) ==
    UnitVariant(j, ("user" :> "User") @@ ("assistant" :> "Assistant"))

Role_new(role) ==
    IF role = "user" THEN "User"
    ELSE IF role = "assistant" THEN "Assistant"
    ELSE "User"

(* MediaType *)

MediaType == {"Jpeg", "Png", "Gif", "Webp"}

MediaType_serialize(m) ==
    CASE m = "Jpeg" -> JStr("image/jpeg")
      [] m = "Png" -> JStr("image/png")
      [] m = "Gif" -> JStr("image/gif")
      [] m = "Webp" -> JStr("image/webp")

MediaType_deserialize(j) ==
    UnitVariant(j, ("image/jpeg" :> "Jpeg") @@ ("image/png" :> "Png")
                   @@ ("image/gif" :> "Gif") @@ ("image/webp" :> "Webp"))

(* Source *)

Source_new(data, media_type) ==
    [content_type |-> "base64", data |-> data, media_type |-> media_type]

Source_serialize(s) ==
    JObj(("type" :> JStr(s.content_type)) @@ ("data" :> JStr(s.data))
         @@ ("media_type" :> MediaType_serialize(s.media_type)))

Source_deserialize(j) ==
    IF ~IsStruct(j, 3) THEN None
    ELSE LET ty == StrField(j, "type", 1)
             data == StrField(j, "data", 2)
             mf == Field(j, "media_type", 3)
             media == IF IsSome(mf) THEN MediaType_deserialize(Unwrap(mf)) ELSE None
         IN IF IsSome(ty) /\ IsSome(data) /\ IsSome(media)
            THEN Some([content_type |-> Unwrap(ty), data |-> Unwrap(data),
                       media_type |-> Unwrap(media)])
            ELSE None

(* ContentText, ContentImage and the untagged ContentType *)

ContentText_serialize(c) ==
    JObj(("text" :> JStr(c.text)) @@ ("type" :> JStr(c.content_type)))

ContentText_deserialize(j) ==
    IF ~IsStruct(j, 2) THEN None
    ELSE LET text == StrField(j, "text", 1)
             ty == StrField(j, "type", 2)
         IN IF IsSome(text) /\ IsSome(ty)
            THEN Some([text |-> Unwrap(text), content_type |-> Unwrap(ty)])
            ELSE None

ContentImage_serialize(c) ==
    JObj(("source" :> Source_serialize(c.source))
         @@ ("type" :> JStr(c.content_type)))

ContentImage_deserialize(j) ==
    IF ~IsStruct(j, 2) THEN None
    ELSE LET sf == Field(j, "source", 1)
             source == IF IsSome(sf) THEN Source_deserialize(Unwrap(sf)) ELSE None
             ty == StrField(j, "type", 2)
         IN IF IsSome(source) /\ IsSome(ty)
            THEN Some([source |-> Unwrap(source), content_type |-> Unwrap(ty)])
            ELSE None

Text(c) == [tag |-> "Text", val |-> c]
Image(c) == [tag |-> "Image", val |-> c]

ContentType_new_text(text) == Text([text |-> text, content_type |-> "text"])

ContentType_new_image(source) ==
    Image([source |-> source, content_type |-> "image"])

\* Untagged: the variant's content alone.
ContentType_serialize(b) ==
    IF b.tag = "Text" THEN ContentText_serialize(b.val)
    ELSE ContentImage_serialize(b.val)

\* As ContentType_deserialize, with Image tried before Text.
ContentType_deserialize_ImageFirst(j) ==
    LET text == ContentText_deserialize(j)
        image == ContentImage_deserialize(j)
    IN IF IsSome(image) THEN Some(Image(Unwrap(image)))
       ELSE IF IsSome(text) THEN Some(Text(Unwrap(text)))
       ELSE None

\* Untagged: the variants are tried in declaration order.
ContentType_deserialize(j) ==
    LET text == ContentText_deserialize(j)
        image == ContentImage_deserialize(j)
    IN IF IsSome(text) THEN Some(Text(Unwrap(text)))
       ELSE IF IsSome(image) THEN Some(Image(Unwrap(image)))
       ELSE None

(* MessageContent *)

String(s) == [tag |-> "String", val |-> s]
ContentArray(a) == [tag |-> "ContentArray", val |-> a]

\* As MessageContent_new_content_array_text, collecting the blocks in the
\* reverse order.
MessageContent_new_content_array_text_Reversed(content) ==
    ContentArray([i \in 1..Len(content) |->
                     ContentType_new_text(content[Len(content) + 1 - i])])

MessageContent_new_content_array_text(content) ==
    ContentArray([i \in 1..Len(content) |-> ContentType_new_text(content[i])])

MessageContent_serialize(m) ==
    IF m.tag = "String" THEN JStr(m.val)
    ELSE JArr([i \in 1..Len(m.val) |-> ContentType_serialize(m.val[i])])

MessageContent_deserialize(j) ==
    LET array == DecodeVec(j, [i \in 1..Len(Items(j)) |->
                                  ContentType_deserialize(Items(j)[i])])
    IN IF j.t = "str" THEN Some(String(j.v))
       ELSE IF IsSome(array) THEN Some(ContentArray(Unwrap(array)))
       ELSE None

(* Messages *)

Messages_new(role, content) == [role |-> role, content |-> content]

Messages_serialize(m) ==
    JObj(("role" :> Role_serialize(m.role))
         @@ ("content" :> MessageContent_serialize(m.content)))

Messages_deserialize(j) ==
    IF ~IsStruct(j, 2) THEN None
    ELSE LET rf == Field(j, "role", 1)
             role == IF IsSome(rf) THEN Role_deserialize(Unwrap(rf)) ELSE None
             cf == Field(j, "content", 2)
             content == IF IsSome(cf) THEN MessageContent_deserialize(Unwrap(cf))
                        ELSE None
         IN IF IsSome(role) /\ IsSome(content)
            THEN Some([role |-> Unwrap(role), content |-> Unwrap(content)])
            ELSE None

(* f32: a finite value or one that is not (an infinity, a NaN).  serde_json  *)
(* writes a finite value as a JSON number and the others as null; it reads  *)
(* a float or an integer.                                                   *)

Finite(r) == [cls |-> "finite", repr |-> r]
Infinity == [cls |-> "inf", repr |-> "inf"]
JFloat(r) == [t |-> "float", v |-> r]

F32_serialize(x) == IF x.cls = "finite" THEN JFloat(x.repr) ELSE JNull

\* An Option<f32> field.
OptF32Field(j, k, i) ==
    LET f == Field(j, k, i)
    IN IF ~IsSome(f) \/ Unwrap(f).t = "null" THEN Some(None)
       ELSE IF Unwrap(f).t = "float" THEN Some(Some(Finite(Unwrap(f).v)))
       ELSE IF Unwrap(f).t = "num"
       THEN Some(Some(Finite(ToString(Unwrap(f).v) \o ".0")))
       ELSE None

OptF32_serialize(o) == IF IsSome(o) THEN F32_serialize(Unwrap(o)) ELSE JNull

(* RequestBodyAnthropic *)

DefaultModel == "claude-3-5-sonnet-20241022"
DefaultMaxTokens == 1000

RequestBodyAnthropic_new(model, max_tokens, messages, temperature) ==
    [model |-> model, max_tokens |-> max_tokens, messages |-> messages,
     temperature |-> temperature]

RequestBodyAnthropic_serialize(b) ==
    JObj(("model" :> JStr(b.model)) @@ ("max_tokens" :> JNum(b.max_tokens))
         @@ ("messages" :> JArr([i \in 1..Len(b.messages) |->
                                    Messages_serialize(b.messages[i])]))
         @@ ("temperature" :> OptF32_serialize(b.temperature)))

RequestBodyAnthropic_deserialize(j) ==
    IF ~IsStruct(j, 4) THEN None
    ELSE LET model == StrField(j, "model", 1)
             max_tokens == I32Field(j, "max_tokens", 2)
             mf == Field(j, "messages", 3)
             messages == IF IsSome(mf)
                         THEN DecodeVec(Unwrap(mf), [i \in 1..Len(Items(Unwrap(mf))) |->
                                  Messages_deserialize(Items(Unwrap(mf))[i])])
                         ELSE None
             temperature == OptF32Field(j, "temperature", 4)
         IN IF IsSome(model) /\ IsSome(max_tokens) /\ IsSome(messages)
               /\ IsSome(temperature)
            THEN Some([model |-> Unwrap(model), max_tokens |-> Unwrap(max_tokens),
                       messages |-> Unwrap(messages),
                       temperature |-> Unwrap(temperature)])
            ELSE None

(* Usage, ResponseBodyAnthropic *)

Usage_deserialize(j) ==
    IF ~IsStruct(j, 2) THEN None
    ELSE LET input == I32Field(j, "input_tokens", 1)
             output == I32Field(j, "output_tokens", 2)
         IN IF IsSome(input) /\ IsSome(output)
            THEN Some([input_tokens |-> Unwrap(input),
                       output_tokens |-> Unwrap(output)])
            ELSE None

ResponseBodyAnthropic_deserialize(j) ==
    IF ~IsStruct(j, 8) THEN None
    ELSE LET id == StrField(j, "id", 1)
             model == StrField(j, "model", 2)
             rf == Field(j, "role", 3)
             role == IF IsSome(rf) THEN Role_deserialize(Unwrap(rf)) ELSE None
             stop_reason == StrField(j, "stop_reason", 4)
             stop_sequence == OptStrField(j, "stop_sequence", 5)
             message_type == StrField(j, "type", 6)
             uf == Field(j, "usage", 7)
             usage == IF IsSome(uf) THEN Usage_deserialize(Unwrap(uf)) ELSE None
             cf == Field(j, "content", 8)
             content == IF IsSome(cf)
                        THEN DecodeVec(Unwrap(cf), [i \in 1..Len(Items(Unwrap(cf))) |->
                                 ContentType_deserialize(Items(Unwrap(cf))[i])])
                        ELSE None
         IN IF IsSome(id) /\ IsSome(model) /\ IsSome(role) /\ IsSome(stop_reason)
               /\ IsSome(stop_sequence) /\ IsSome(message_type) /\ IsSome(usage)
               /\ IsSome(content)
            THEN Some([id |-> Unwrap(id), model |-> Unwrap(model),
                       role |-> Unwrap(role), stop_reason |-> Unwrap(stop_reason),
                       stop_sequence |-> Unwrap(stop_sequence),
                       message_type |-> Unwrap(message_type),
                       usage |-> Unwrap(usage), content |-> Unwrap(content)])
            ELSE None

---------------------------------------------------------------------------
(* The models resource (models.rs)                                          *)

ModelEnums_deserialize(j) == UnitVariant(j, "model" :> "Models")

Model_deserialize(j) ==
    IF ~IsStruct(j, 4) THEN None
    ELSE LET id == StrField(j, "id", 1)
             display_name == StrField(j, "display_name", 2)
             tf == Field(j, "type", 3)
             model_type == IF IsSome(tf) THEN ModelEnums_deserialize(Unwrap(tf))
                           ELSE None
             created_at == StrField(j, "created_at", 4)
         IN IF IsSome(id) /\ IsSome(display_name) /\ IsSome(model_type)
               /\ IsSome(created_at)
            THEN Some([id |-> Unwrap(id), display_name |-> Unwrap(display_name),
                       model_type |-> Unwrap(model_type),
                       created_at |-> Unwrap(created_at)])
            ELSE None

\* As GetModelsBody_deserialize, with has_more defaulting to false.
GetModelsBody_deserialize_Lenient(j) ==
    IF ~IsStruct(j, 4) THEN None
    ELSE LET first_id == OptStrField(j, "first_id", 1)
             last_id == OptStrField(j, "last_id", 2)
             has_more == BoolField(j, "has_more", 3)
             df == Field(j, "data", 4)
             data == IF IsSome(df)
                     THEN DecodeVec(Unwrap(df), [i \in 1..Len(Items(Unwrap(df))) |->
                              Model_deserialize(Items(Unwrap(df))[i])])
                     ELSE None
         IN IF IsSome(first_id) /\ IsSome(last_id) /\ IsSome(data)
            THEN Some([first_id |-> Unwrap(first_id), last_id |-> Unwrap(last_id),
                       has_more |-> IF IsSome(has_more) THEN Unwrap(has_more) ELSE FALSE,
                       data |-> Unwrap(data)])
            ELSE None

GetModelsBody_deserialize(j) ==
    IF ~IsStruct(j, 4) THEN None
    ELSE LET first_id == OptStrField(j, "first_id", 1)
             last_id == OptStrField(j, "last_id", 2)
             has_more == BoolField(j, "has_more", 3)
             df == Field(j, "data", 4)
             data == IF IsSome(df)
                     THEN DecodeVec(Unwrap(df), [i \in 1..Len(Items(Unwrap(df))) |->
                              Model_deserialize(Items(Unwrap(df))[i])])
                     ELSE None
         IN IF IsSome(first_id) /\ IsSome(last_id) /\ IsSome(has_more)
               /\ IsSome(data)
            THEN Some([first_id |-> Unwrap(first_id), last_id |-> Unwrap(last_id),
                       has_more |-> Unwrap(has_more), data |-> Unwrap(data)])
            ELSE None

GetModelsQueryParams_new(before_id, after_id, limit) ==
    [before_id |-> before_id, after_id |-> after_id, limit |-> limit]

GetModelsQueryParams_default ==
    [before_id |-> None, after_id |-> None, limit |-> None]

\* As GetModelsQueryParams_serialize, with an empty value for a None field.
GetModelsQueryParams_serialize_Empty(p) ==
    <<[key |-> "before_id",
       value |-> IF IsSome(p.before_id) THEN Unwrap(p.before_id) ELSE ""],
      [key |-> "after_id",
       value |-> IF IsSome(p.after_id) THEN Unwrap(p.after_id) ELSE ""],
      [key |-> "limit",
       value |-> IF IsSome(p.limit) THEN ToString(Unwrap(p.limit)) ELSE ""]>>

\* serde_urlencoded over the struct: one key=value pair per field that is
\* Some, in declaration order; a None field writes nothing.
GetModelsQueryParams_serialize(p) ==
    (IF IsSome(p.before_id)
     THEN <<[key |-> "before_id", value |-> Unwrap(p.before_id)]>> ELSE <<>>)
    \o (IF IsSome(p.after_id)
        THEN <<[key |-> "after_id", value |-> Unwrap(p.after_id)]>> ELSE <<>>)
    \o (IF IsSome(p.limit)
        THEN <<[key |-> "limit", value |-> ToString(Unwrap(p.limit))]>> ELSE <<>>)

---------------------------------------------------------------------------
(* Texts and results                                                        *)

\* An atom of text: literal characters, or the text of a JSON document.
Lit(s) == [raw |-> s, json |-> None]
Doc(j) == [raw |-> "", json |-> Some(j)]

\* part occurs in text as a contiguous piece.
Contains(text, part) ==
    \E i \in 1..(Len(text) + 1) :
        /\ i + Len(part) - 1 <= Len(text)
        /\ SubSeq(text, i, i + Len(part) - 1) = part

\* serde_json's parse of a text: it is exactly one JSON document.
ParseJson(text) ==
    IF Len(text) = 1 /\ IsSome(text[1].json) THEN text[1].json ELSE None

\* Response::json::<T>() on a body that was read: parse, then T's Deserialize.
Json_ResponseBodyAnthropic(text) ==
    LET j == ParseJson(text)
    IN IF IsSome(j) THEN ResponseBodyAnthropic_deserialize(Unwrap(j)) ELSE None

Json_GetModelsBody(text) ==
    LET j == ParseJson(text)
    IN IF IsSome(j) THEN GetModelsBody_deserialize(Unwrap(j)) ELSE None

Json_Model(text) ==
    LET j == ParseJson(text)
    IN IF IsSome(j) THEN Model_deserialize(Unwrap(j)) ELSE None

Ok(v) == [ok |-> TRUE, kind |-> "ok", msg |-> <<>>, value |-> Some(v)]
Err(kind, msg) == [ok |-> FALSE, kind |-> kind, msg |-> msg, value |-> None]

TransportError == Err("transport", <<Lit("error sending request")>>)
BodyError == Err("transport", <<Lit("error decoding response body")>>)
ParseError == Err("parse", <<Lit("error decoding response body")>>)

StatusOK == 200

---------------------------------------------------------------------------
(* AnthropicClient (mod.rs)                                                 *)

ClientOf(cfg, headers) ==
    [api_key |-> cfg.api_key, api_url |-> cfg.api_url, version |-> cfg.version,
     api_version |-> cfg.api_version, headers |-> headers]

\* The two parse().unwrap() calls abort when the value is no header value.
AnthropicClient_new(cfg) ==
    IF ValidHeaderValue(cfg.api_key)
    THEN [outcome |-> "ok", err |-> "none",
          client |-> Some(ClientOf(cfg,
              HeaderInsert(HeaderInsert(NoHeaders, ANTHROPIC_VERSION,
                                        VersionToString(cfg.version)),
                           X_API_KEY, cfg.api_key)))]
    ELSE [outcome |-> "panic", err |-> "InvalidHeaderValue", client |-> None]

AnthropicClient_default(e) ==
    LET cfg == Config_default(e)
    IN IF ~IsSome(cfg)
       THEN [outcome |-> "err", err |-> "VarError", client |-> None]
       ELSE IF ~ValidHeaderValue(Unwrap(cfg).api_key)
       THEN [outcome |-> "err", err |-> "InvalidHeaderValue", client |-> None]
       ELSE [outcome |-> "ok", err |-> "none",
             client |-> Some(ClientOf(Unwrap(cfg),
                 HeaderInsert(HeaderInsert(HeaderInsert(NoHeaders,
                     ANTHROPIC_VERSION, VersionToString(Unwrap(cfg).version)),
                     X_API_KEY, Unwrap(cfg).api_key),
                     CONTENT_TYPE, "application/json")))]

AnthropicClient_set_version(c, version) == [c EXCEPT !.version = version]

get_url(c, path) ==
    c.api_url \o "/" \o ApiVersionToString(c.api_version) \o "/" \o path

\* The request each operation hands to send().
get_message_completed_request(c, body) ==
    [method |-> "POST", url |-> get_url(c, "messages"),
     headers |-> MergeHeaders(c.headers, NoHeaders),
     query |-> <<>>,
     body |-> Some(RequestBodyAnthropic_serialize(body))]

ModelsHeaders(c) ==
    HeaderAppend(HeaderAppend(NoHeaders, "anthropic-version", "2023-06-01"),
                 "x-api-key", c.api_key)

get_models_request(c) ==
    [method |-> "GET", url |-> c.api_url \o "/v1/models",
     headers |-> MergeHeaders(c.headers, ModelsHeaders(c)),
     query |-> <<>>, body |-> None]

get_model_with_params_request(c, params) ==
    [method |-> "GET", url |-> c.api_url \o "/v1/models",
     headers |-> MergeHeaders(c.headers, ModelsHeaders(c)),
     query |-> GetModelsQueryParams_serialize(params), body |-> None]

get_model_by_id_request(c, model_id) ==
    [method |-> "GET", url |-> c.api_url \o "/v1/models/" \o model_id,
     headers |-> MergeHeaders(c.headers, ModelsHeaders(c)),
     query |-> <<>>, body |-> None]

\* What each operation returns once the status is known and the read of the
\* body has ended: body is None when the read failed, Some(text) otherwise.
get_message_completed_result(status, body) ==
    IF status # StatusOK
    THEN Err("api", <<Lit("Error: ")>> \o (IF IsSome(body) THEN Unwrap(body) ELSE <<>>))
    ELSE IF ~IsSome(body) THEN BodyError
    ELSE LET v == Json_ResponseBodyAnthropic(Unwrap(body))
         IN IF IsSome(v) THEN Ok(Unwrap(v)) ELSE ParseError

get_models_result(status, body) ==
    IF status # StatusOK
    THEN (IF IsSome(body) THEN Err("api", Unwrap(body)) ELSE BodyError)
    ELSE IF ~IsSome(body) THEN BodyError
    ELSE LET v == Json_GetModelsBody(Unwrap(body))
         IN IF IsSome(v) THEN Ok(Unwrap(v)) ELSE ParseError

get_model_with_params_result(status, body) ==
    IF status # StatusOK
    THEN (IF IsSome(body) THEN Err("api", Unwrap(body)) ELSE BodyError)
    ELSE IF ~IsSome(body) THEN BodyError
    ELSE LET v == Json_GetModelsBody(Unwrap(body))
         IN IF IsSome(v) THEN Ok(Unwrap(v)) ELSE ParseError

\* As get_model_by_id_result, with a fixed message for a status other than 200.
get_model_by_id_result_NoBody(status, body) ==
    IF status # StatusOK
    THEN Err("api", <<Lit("request failed")>>)
    ELSE IF ~IsSome(body) THEN BodyError
    ELSE LET v == Json_Model(Unwrap(body))
         IN IF IsSome(v) THEN Ok(Unwrap(v)) ELSE ParseError

get_model_by_id_result(status, body) ==
    IF status # StatusOK
    THEN (IF IsSome(body) THEN Err("api", Unwrap(body)) ELSE BodyError)
    ELSE IF ~IsSome(body) THEN BodyError
    ELSE LET v == Json_Model(Unwrap(body))
         IN IF IsSome(v) THEN Ok(Unwrap(v)) ELSE ParseError

Operations ==
    {"get_message_completed", "get_models", "get_model_with_params",
     "get_model_by_id"}

RequestOf(c, op, arg) ==
    CASE op = "get_message_completed" ->
            get_message_completed_request(c, Unwrap(arg.body))
      [] op = "get_models" -> get_models_request(c)
      [] op = "get_model_with_params" ->
            get_model_with_params_request(c, Unwrap(arg.params))
      [] op = "get_model_by_id" -> get_model_by_id_request(c, Unwrap(arg.id))

ResultOf(op, status, body) ==
    CASE op = "get_message_completed" -> get_message_completed_result(status, body)
      [] op = "get_models" -> get_models_result(status, body)
      [] op = "get_model_with_params" -> get_model_with_params_result(status, body)
      [] op = "get_model_by_id" -> get_model_by_id_result(status, body)

---------------------------------------------------------------------------
(* Inputs                                                                   *)

Tasks == {"A", "B"}

NoArg == [body |-> None, params |-> None, id |-> None]

IdleTask ==
    [pc |-> "idle", op |-> "none", arg |-> NoArg, req |-> None, attempts |-> 0,
     status |-> None, body |-> None, result |-> None]

SampleBodies ==
    {RequestBodyAnthropic_new(DefaultModel, DefaultMaxTokens,
        <<Messages_new("User", String("What is the capital of France?"))>>,
        Some(Finite("0.1"))),
     RequestBodyAnthropic_new(DefaultModel, DefaultMaxTokens,
        <<Messages_new("User", ContentArray(<<ContentType_new_text("describe"),
                                             ContentType_new_image(Source_new("aGk=", "Jpeg"))>>))>>,
        None)}

SampleParams ==
    {GetModelsQueryParams_new(b, a, l) :
        b \in {None, Some("m1")}, a \in {None, Some("m2")}, l \in {None, Some(1)}}

ModelIds == {"m1", "x"}

Arguments(op) ==
    CASE op = "get_message_completed" ->
            {[NoArg EXCEPT !.body = Some(b)] : b \in SampleBodies}
      [] op = "get_models" -> {NoArg}
      [] op = "get_model_with_params" ->
            {[NoArg EXCEPT !.params = Some(p)] : p \in SampleParams}
      [] op = "get_model_by_id" -> {[NoArg EXCEPT !.id = Some(m)] : m \in ModelIds}

Statuses == {200, 201, 404}

ModelJson(id, type) ==
    JObj(("id" :> JStr(id)) @@ ("display_name" :> JStr("Claude"))
         @@ ("type" :> JStr(type)) @@ ("created_at" :> JStr("2024-10-22T00:00:00Z")))

ListJson(has_more, data) ==
    JObj(("first_id" :> JNull) @@ ("last_id" :> JNull)
         @@ ("has_more" :> has_more) @@ ("data" :> JArr(data)))

MessageJson(role, content) ==
    JObj(("id" :> JStr("msg_1")) @@ ("model" :> JStr(DefaultModel))
         @@ ("role" :> JStr(role)) @@ ("stop_reason" :> JStr("end_turn"))
         @@ ("stop_sequence" :> JNull) @@ ("type" :> JStr("message"))
         @@ ("usage" :> JObj(("input_tokens" :> JNum(1)) @@ ("output_tokens" :> JNum(2))))
         @@ ("content" :> JArr(content)))

\* The bodies a server answers with: no text, text that is not JSON, and JSON
\* documents of the three response shapes, well-formed and not.
ResponseTexts ==
    {<<>>,
     <<Lit("not found")>>,
     <<Doc(ListJson(JBool(FALSE), <<>>))>>,
     <<Doc(ListJson(JBool(TRUE), <<ModelJson("m1", "model")>>))>>,
     <<Doc(ListJson(JStr("no"), <<>>))>>,
     <<Doc(ListJson(JBool(FALSE), <<ModelJson("m1", "other")>>))>>,
     <<Doc(ModelJson("m1", "model"))>>,
     <<Doc(JArr(<<JStr("m1"), JStr("Claude"), JStr("model"), JStr("2024")>>))>>,
     <<Doc(MessageJson("assistant", <<ContentText_serialize([text |-> "Paris", content_type |-> "text"])>>))>>,
     <<Doc(MessageJson("system", <<>>))>>,
     <<Doc(MessageJson("assistant", <<JObj("type" :> JStr("tool_use"))>>))>>}

---------------------------------------------------------------------------
(* The caller's program: build a Config, build the client, call.           *)

NoCall == [op |-> "none", outcome |-> "none", err |-> "none"]
Done(op) == [op |-> op, outcome |-> "ok", err |-> "none"]

Alive == ctor.outcome # "panic"
AllIdle == \A t \in Tasks : tasks[t].pc = "idle"

InitClient ==
    /\ env \in EnvValues
    /\ config = None
    /\ client = None
    /\ ctor = NoCall
    /\ tasks = [t \in Tasks |-> IdleTask]

InitCodecIdle ==
    /\ subject = None
    /\ encoded = None
    /\ decoded = None

Init == InitClient /\ InitCodecIdle /\ InitDataIdle

ConfigNew(k, u) ==
    /\ Alive /\ client = None
    /\ config' = Some(Config_new(k, u))
    /\ ctor' = Done("Config::new")
    /\ UNCHANGED <<env, client, tasks, codecVars, call>>

ConfigNewWithVersion(k, u, v) ==
    /\ Alive /\ client = None
    /\ config' = Some(Config_new_with_version(k, u, v))
    /\ ctor' = Done("Config::new_with_version")
    /\ UNCHANGED <<env, client, tasks, codecVars, call>>

ConfigSetVersion(v) ==
    /\ Alive /\ client = None /\ IsSome(config)
    /\ config' = Some(Config_set_version(Unwrap(config), v))
    /\ ctor' = Done("Config::set_version")
    /\ UNCHANGED <<env, client, tasks, codecVars, call>>

ConfigDefault ==
    /\ Alive /\ client = None
    /\ LET r == Config_default(env)
       IN IF IsSome(r)
          THEN config' = r /\ ctor' = Done("Config::default")
          ELSE /\ config' = config
               /\ ctor' = [op |-> "Config::default", outcome |-> "err",
                           err |-> "VarError"]
    /\ UNCHANGED <<env, client, tasks, codecVars, call>>

\* AnthropicClient::new takes the Config by value.
ClientNew ==
    /\ Alive /\ client = None /\ IsSome(config)
    /\ LET r == AnthropicClient_new(Unwrap(config))
       IN /\ client' = r.client
          /\ ctor' = [op |-> "AnthropicClient::new", outcome |-> r.outcome,
                      err |-> r.err]
    /\ config' = None
    /\ UNCHANGED <<env, tasks, codecVars, call>>

ClientDefault ==
    /\ Alive /\ client = None
    /\ LET r == AnthropicClient_default(env)
       IN /\ client' = r.client
          /\ ctor' = [op |-> "AnthropicClient::default", outcome |-> r.outcome,
                      err |-> r.err]
    /\ UNCHANGED <<env, config, tasks, codecVars, call>>

\* set_version takes &mut self: no call is in progress.
ClientSetVersion(v) ==
    /\ Alive /\ IsSome(client) /\ AllIdle
    /\ client' = Some(AnthropicClient_set_version(Unwrap(client), v))
    /\ ctor' = Done("AnthropicClient::set_version")
    /\ UNCHANGED <<env, config, tasks, codecVars, call>>

---------------------------------------------------------------------------
(* A request operation: the call builds the request and hands it to send(), *)
(* suspends until the status line arrives or the transport fails, suspends  *)
(* again on the read of the body, and returns.                              *)

\* As AfterSendError, with one more attempt after the first failure.
AfterSendError_Retry(task) ==
    IF task.attempts < 2
    THEN [task EXCEPT !.attempts = @ + 1]
    ELSE [task EXCEPT !.pc = "done", !.result = Some(TransportError)]

\* send().await? returned an error: the operation returns it.
AfterSendError(task) ==
    [task EXCEPT !.pc = "done", !.result = Some(TransportError)]

\* The read of the body ended, in body: the operation returns.
AfterBody(task, body) ==
    [task EXCEPT !.pc = "done", !.body = Some(body),
                 !.result = Some(ResultOf(task.op, Unwrap(task.status), body))]

\* As Call, with the URL of the request kept in the client, as if the
\* operation built it in place.
Call_KeepsUrl(t, op, arg) ==
    /\ Alive /\ IsSome(client) /\ tasks[t].pc = "idle"
    /\ tasks' = [tasks EXCEPT ![t] =
            [IdleTask EXCEPT !.pc = "send", !.op = op, !.arg = arg,
                             !.req = Some(RequestOf(Unwrap(client), op, arg)),
                             !.attempts = 1]]
    /\ client' = Some([Unwrap(client) EXCEPT
                          !.api_url = RequestOf(Unwrap(client), op, arg).url])
    /\ UNCHANGED <<env, config, ctor, codecVars, call>>

Call(t, op, arg) ==
    /\ Alive /\ IsSome(client) /\ tasks[t].pc = "idle"
    /\ tasks' = [tasks EXCEPT ![t] =
            [IdleTask EXCEPT !.pc = "send", !.op = op, !.arg = arg,
                             !.req = Some(RequestOf(Unwrap(client), op, arg)),
                             !.attempts = 1]]
    /\ UNCHANGED <<env, config, client, ctor, codecVars, call>>

\* The transport fails, or the URL is none the HTTP client can send to.
SendFails(t) ==
    /\ tasks[t].pc = "send"
    /\ tasks' = [tasks EXCEPT ![t] = AfterSendError(tasks[t])]
    /\ UNCHANGED <<env, config, client, ctor, codecVars, call>>

SendOk(t, status) ==
    /\ tasks[t].pc = "send"
    /\ ValidUrl(Unwrap(client).api_url)
    /\ tasks' = [tasks EXCEPT ![t] = [@ EXCEPT !.pc = "body", !.status = Some(status)]]
    /\ UNCHANGED <<env, config, client, ctor, codecVars, call>>

BodyFails(t) ==
    /\ tasks[t].pc = "body"
    /\ tasks' = [tasks EXCEPT ![t] = AfterBody(tasks[t], None)]
    /\ UNCHANGED <<env, config, client, ctor, codecVars, call>>

BodyArrives(t, text) ==
    /\ tasks[t].pc = "body"
    /\ tasks' = [tasks EXCEPT ![t] = AfterBody(tasks[t], Some(text))]
    /\ UNCHANGED <<env, config, client, ctor, codecVars, call>>

\* The caller takes the result; the task may call again.
Return(t) ==
    /\ tasks[t].pc = "done"
    /\ tasks' = [tasks EXCEPT ![t] = IdleTask]
    /\ UNCHANGED <<env, config, client, ctor, codecVars, call>>

\* One caller, which awaits each call before the next.
Callers == {"A"}

Next ==
    \/ \E k \in ApiKeys, u \in BaseUrls : ConfigNew(k, u)
    \/ \E k \in ApiKeys, u \in BaseUrls, v \in Version : ConfigNewWithVersion(k, u, v)
    \/ \E v \in Version : ConfigSetVersion(v)
    \/ ConfigDefault
    \/ ClientNew
    \/ ClientDefault
    \/ \E v \in Version : ClientSetVersion(v)
    \/ \E t \in Callers, op \in Operations : \E arg \in Arguments(op) : Call(t, op, arg)
    \/ \E t \in Callers : SendFails(t)
    \/ \E t \in Callers, status \in Statuses : SendOk(t, status)
    \/ \E t \in Callers : BodyFails(t)
    \/ \E t \in Callers, text \in ResponseTexts : BodyArrives(t, text)
    \/ \E t \in Callers : Return(t)

Spec == Init /\ [][Next]_vars

---------------------------------------------------------------------------
(* Concurrent use: the tasks share one client, built by AnthropicClient::new; *)
(* every operation takes &self, so the calls of the tasks interleave at     *)
(* their suspension points.  set_version takes &mut self.                  *)

ConcurrentArguments(op) ==
    CASE op = "get_message_completed" ->
            {[NoArg EXCEPT !.body = Some(RequestBodyAnthropic_new(DefaultModel,
                DefaultMaxTokens, <<Messages_new("User", String("hi"))>>, None))]}
      [] op = "get_models" -> {NoArg}
      [] op = "get_model_with_params" ->
            {[NoArg EXCEPT !.params =
                Some(GetModelsQueryParams_new(None, None, Some(1)))]}
      [] op = "get_model_by_id" -> {[NoArg EXCEPT !.id = Some(m)] : m \in ModelIds}

ConcurrentStatuses == {200, 404}

ConcurrentTexts ==
    {<<Lit("not found")>>,
     <<Doc(ModelJson("m1", "model"))>>,
     <<Doc(MessageJson("assistant", <<ContentText_serialize([text |-> "Paris", content_type |-> "text"])>>))>>}

InitConcurrent ==
    /\ env = EnvUnset
    /\ config = None
    /\ \E u \in BaseUrls :
          LET r == AnthropicClient_new(Config_new(<<"s", "k", "-", "1">>, u))
          IN /\ client = r.client
             /\ ctor = [op |-> "AnthropicClient::new", outcome |-> r.outcome,
                        err |-> r.err]
    /\ tasks = [t \in Tasks |-> IdleTask]
    /\ InitCodecIdle /\ InitDataIdle

NextConcurrent ==
    \/ \E v \in Version : ClientSetVersion(v)
    \/ \E t \in Tasks, op \in Operations :
          \E arg \in ConcurrentArguments(op) : Call(t, op, arg)
    \/ \E t \in Tasks : SendFails(t)
    \/ \E t \in Tasks, status \in ConcurrentStatuses : SendOk(t, status)
    \/ \E t \in Tasks : BodyFails(t)
    \/ \E t \in Tasks, text \in ConcurrentTexts : BodyArrives(t, text)
    \/ \E t \in Tasks : Return(t)

SpecConcurrent == InitConcurrent /\ [][NextConcurrent]_vars

---------------------------------------------------------------------------
(* The codec: a caller builds a value of the data model, encodes it with    *)
(* serde_json, decodes the JSON, and may go on with the decoded value.      *)

MaxBlocks == 2
MaxMessages == 2

\* The sequences over S of length at most n.
SeqsUpTo(S, n) == UNION {[1..k -> S] : k \in 0..n}

Sources ==
    {[content_type |-> ty, data |-> "aGk=", media_type |-> m] :
        ty \in {"base64", "url"}, m \in MediaType}

Blocks ==
    {Text([text |-> "a", content_type |-> "text"]),
     Image([source |-> [content_type |-> "url", data |-> "aGk=", media_type |-> "Png"],
            content_type |-> "image"])}

Contents == {String("hi")} \cup {ContentArray(a) : a \in SeqsUpTo(Blocks, MaxBlocks)}

Temperatures == {None, Some(Finite("0.1")), Some(Infinity)}

RequestBodies ==
    {RequestBodyAnthropic_new(DefaultModel, DefaultMaxTokens, ms, temp) :
        ms \in SeqsUpTo({Messages_new(r, c) : r \in Role, c \in Contents}, MaxMessages),
        temp \in Temperatures}

Subjects ==
    {[ty |-> "RequestBodyAnthropic", v |-> b] : b \in RequestBodies}
    \cup {[ty |-> "Source", v |-> x] : x \in Sources}

Serialize(x) ==
    CASE x.ty = "RequestBodyAnthropic" -> RequestBodyAnthropic_serialize(x.v)
      [] x.ty = "Source" -> Source_serialize(x.v)

Deserialize(ty, j) ==
    CASE ty = "RequestBodyAnthropic" -> RequestBodyAnthropic_deserialize(j)
      [] ty = "Source" -> Source_deserialize(j)

InitClientIdle ==
    /\ env = EnvUnset
    /\ config = None
    /\ client = None
    /\ ctor = NoCall
    /\ tasks = [t \in Tasks |-> IdleTask]

InitCodec == InitClientIdle /\ InitCodecIdle /\ InitDataIdle

\* A struct literal: every field is the caller's.
Construct ==
    /\ subject = None
    /\ \E x \in Subjects : subject' = Some(x)
    /\ UNCHANGED <<encoded, decoded, clientVars, call>>

SourceNew(data, media_type) ==
    /\ subject = None
    /\ subject' = Some([ty |-> "Source", v |-> Source_new(data, media_type)])
    /\ UNCHANGED <<encoded, decoded, clientVars, call>>

\* serde_json::to_string
Encode ==
    /\ IsSome(subject) /\ encoded = None
    /\ encoded' = Some(Serialize(Unwrap(subject)))
    /\ UNCHANGED <<subject, decoded, clientVars, call>>

\* serde_json::from_str, at the type of the subject
Decode ==
    /\ IsSome(encoded) /\ decoded = None
    /\ decoded' = Some(Deserialize(Unwrap(subject).ty, Unwrap(encoded)))
    /\ UNCHANGED <<subject, encoded, clientVars, call>>

\* The caller goes on with the value it decoded.
Adopt ==
    /\ IsSome(decoded) /\ IsSome(Unwrap(decoded))
    /\ subject' = Some([ty |-> Unwrap(subject).ty, v |-> Unwrap(Unwrap(decoded))])
    /\ encoded' = None
    /\ decoded' = None
    /\ UNCHANGED <<clientVars, call>>

NextCodec ==
    \/ Construct
    \/ \E d \in {"aGk="}, m \in MediaType : SourceNew(d, m)
    \/ Encode
    \/ Decode
    \/ Adopt

SpecCodec == InitCodec /\ [][NextCodec]_vars

---------------------------------------------------------------------------
(* The data model's functions: a caller applies a constructor to its        *)
(* arguments, or serde_json::from_value at one of the types to a JSON       *)
(* value that a peer wrote.                                                 *)

MaxTexts == 3

RoleStrings == {"user", "assistant", "system", "User", ""}

TextLists == SeqsUpTo({"a", "b", "c"}, MaxTexts)

\* A message of each role string, and of a role that is no string.
MessageJsons ==
    {JObj(("role" :> r) @@ ("content" :> JStr("hi"))) :
        r \in {JStr(s) : s \in RoleStrings} \cup {JObj("user" :> JNull), JNum(1)}}

\* The JSON object of those of the keys text, type and source that are given.
BlockObject(text, type, source) ==
    LET given == [text |-> text, type |-> type, source |-> source]
    IN JObj([k \in {n \in {"text", "type", "source"} : IsSome(given[n])} |->
                Unwrap(given[k])])

\* Content blocks as a peer may write them: each key absent, well-formed or
\* of another type.
BlockJsons ==
    {BlockObject(text, type, source) :
        text \in {None, Some(JStr("a")), Some(JNum(1))},
        type \in {None, Some(JStr("text")), Some(JStr("image")),
                  Some(JStr("tool_use")), Some(JNum(1))},
        source \in {None, Some(Source_serialize(Source_new("aGk=", "Png"))),
                    Some(JStr("aGk=")),
                    Some(JObj(("type" :> JStr("base64")) @@ ("data" :> JStr("aGk="))))}}
    \cup {JStr("a"), JNull, JArr(<<JStr("a"), JStr("text")>>)}

\* The elements of the arrays a message's content is decoded from.
ArrayItems ==
    {BlockObject(Some(JStr("a")), Some(JStr("text")), None),
     BlockObject(None, Some(JStr("image")),
                 Some(Source_serialize(Source_new("aGk=", "Png")))),
     BlockObject(Some(JStr("a")), Some(JStr("image")),
                 Some(Source_serialize(Source_new("aGk=", "Png")))),
     BlockObject(None, Some(JStr("tool_use")), None),
     JNum(1)}

ContentJsons ==
    {JStr("hi"), JNum(1), JNull, BlockObject(Some(JStr("a")), Some(JStr("text")), None)}
    \cup {JArr(a) : a \in SeqsUpTo(ArrayItems, MaxBlocks)}

Functions ==
    {"Role::new", "Role::serialize", "Messages::deserialize",
     "MessageContent::new_content_array_text", "MessageContent::deserialize",
     "ContentType::deserialize"}

Inputs(fn) ==
    CASE fn = "Role::new" -> RoleStrings
      [] fn = "Role::serialize" -> Role
      [] fn = "Messages::deserialize" -> MessageJsons
      [] fn = "MessageContent::new_content_array_text" -> TextLists
      [] fn = "MessageContent::deserialize" -> ContentJsons
      [] fn = "ContentType::deserialize" -> BlockJsons

Eval(fn, arg) ==
    CASE fn = "Role::new" -> Role_new(arg)
      [] fn = "Role::serialize" -> Role_serialize(arg)
      [] fn = "Messages::deserialize" -> Messages_deserialize(arg)
      [] fn = "MessageContent::new_content_array_text" ->
            MessageContent_new_content_array_text(arg)
      [] fn = "MessageContent::deserialize" -> MessageContent_deserialize(arg)
      [] fn = "ContentType::deserialize" -> ContentType_deserialize(arg)

InitData == InitClientIdle /\ InitCodecIdle /\ InitDataIdle

\* The functions are pure: a call leaves nothing behind but what it returns.
Apply(fn, arg) ==
    /\ call' = [fn |-> fn, arg |-> arg, ret |-> Eval(fn, arg)]
    /\ UNCHANGED <<clientVars, codecVars>>

NextData == \E fn \in Functions : \E arg \in Inputs(fn) : Apply(fn, arg)

SpecData == InitData /\ [][NextData]_vars

---------------------------------------------------------------------------
(* The response schemas, as the data model states them                      *)

Range(s) == {s[i] : i \in DOMAIN s}
IsStr(f) == IsSome(f) /\ Unwrap(f).t = "str"
IsOptStr(f) == ~IsSome(f) \/ Unwrap(f).t \in {"null", "str"}
IsI32(f) ==
    IsSome(f) /\ Unwrap(f).t = "num" /\ Unwrap(f).v >= I32Min /\ Unwrap(f).v <= I32Max
IsBool(f) == IsSome(f) /\ Unwrap(f).t = "bool"
IsArray(f) == IsSome(f) /\ Unwrap(f).t = "arr"

\* A constant tag out of names: the name, or a map of the name to null.
IsTag(f, names) ==
    /\ IsSome(f)
    /\ \/ Unwrap(f).t = "str" /\ Unwrap(f).v \in names
       \/ /\ Unwrap(f).t = "obj"
          /\ \E n \in names : DOMAIN Unwrap(f).v = {n} /\ Unwrap(f).v[n].t = "null"

ModelSchema(j) ==
    /\ IsStruct(j, 4)
    /\ IsStr(Field(j, "id", 1))
    /\ IsStr(Field(j, "display_name", 2))
    /\ IsTag(Field(j, "type", 3), {"model"})
    /\ IsStr(Field(j, "created_at", 4))

GetModelsBodySchema(j) ==
    /\ IsStruct(j, 4)
    /\ IsOptStr(Field(j, "first_id", 1))
    /\ IsOptStr(Field(j, "last_id", 2))
    /\ IsBool(Field(j, "has_more", 3))
    /\ IsArray(Field(j, "data", 4))
    /\ \A m \in Range(Unwrap(Field(j, "data", 4)).v) : ModelSchema(m)

SourceSchema(j) ==
    /\ IsStruct(j, 3)
    /\ IsStr(Field(j, "type", 1))
    /\ IsStr(Field(j, "data", 2))
    /\ IsTag(Field(j, "media_type", 3),
             {"image/jpeg", "image/png", "image/gif", "image/webp"})

SourceFieldSchema(f) == IsSome(f) /\ SourceSchema(Unwrap(f))

ContentBlockSchema(j) ==
    /\ IsStruct(j, 2)
    /\ \/ IsStr(Field(j, "text", 1)) /\ IsStr(Field(j, "type", 2))
       \/ SourceFieldSchema(Field(j, "source", 1)) /\ IsStr(Field(j, "type", 2))

UsageSchema(f) ==
    /\ IsSome(f) /\ IsStruct(Unwrap(f), 2)
    /\ IsI32(Field(Unwrap(f), "input_tokens", 1))
    /\ IsI32(Field(Unwrap(f), "output_tokens", 2))

ResponseBodySchema(j) ==
    /\ IsStruct(j, 8)
    /\ IsStr(Field(j, "id", 1))
    /\ IsStr(Field(j, "model", 2))
    /\ IsTag(Field(j, "role", 3), {"user", "assistant"})
    /\ IsStr(Field(j, "stop_reason", 4))
    /\ IsOptStr(Field(j, "stop_sequence", 5))
    /\ IsStr(Field(j, "type", 6))
    /\ UsageSchema(Field(j, "usage", 7))
    /\ IsArray(Field(j, "content", 8))
    /\ \A b \in Range(Unwrap(Field(j, "content", 8)).v) : ContentBlockSchema(b)

\* The body of a 200 response is a JSON document of the operation's schema.
MatchesSchema(op, text) ==
    LET j == ParseJson(text)
    IN /\ IsSome(j)
       /\ CASE op = "get_message_completed" -> ResponseBodySchema(Unwrap(j))
            [] op = "get_models" -> GetModelsBodySchema(Unwrap(j))
            [] op = "get_model_with_params" -> GetModelsBodySchema(Unwrap(j))
            [] op = "get_model_by_id" -> ModelSchema(Unwrap(j))

---------------------------------------------------------------------------
(* Properties                                                               *)

Returned(t) == tasks[t].pc = "done"
StatusOf(t) == Unwrap(tasks[t].status)
ResultAt(t) == Unwrap(tasks[t].result)
\* The server answered and the body was read: its text.
BodyRead(t) ==
    IsSome(tasks[t].status) /\ IsSome(tasks[t].body) /\ IsSome(Unwrap(tasks[t].body))
BodyText(t) == Unwrap(Unwrap(tasks[t].body))

\* C1: a call answered with a status other than 200 returns a failure, never
\* a typed value, and the failure's message contains the text of the response
\* body as it was read.
C1_Non200IsFailureWithBody ==
    \A t \in Tasks :
        (Returned(t) /\ IsSome(tasks[t].status) /\ StatusOf(t) # StatusOK) =>
            /\ ~ResultAt(t).ok
            /\ ResultAt(t).value = None
            /\ BodyRead(t) => Contains(ResultAt(t).msg, BodyText(t))

C1_Witness ==
    \E t \in Tasks :
        /\ Returned(t) /\ tasks[t].op = "get_model_by_id"
        /\ tasks[t].arg.id = Some("x")
        /\ tasks[t].status = Some(404)
        /\ BodyRead(t) /\ BodyText(t) = <<Lit("not found")>>
        /\ ~ResultAt(t).ok
        /\ Contains(ResultAt(t).msg, <<Lit("not found")>>)

\* C2: a call answered 200 whose body was read either succeeds with the whole
\* decoded value, when the body matches the operation's schema, or fails with
\* a parsing error and no value, when it does not; every returned call is a
\* success with a value or a failure without one.
C2_SuccessOrParseError ==
    \A t \in Tasks :
        Returned(t) =>
            /\ ResultAt(t).ok <=> IsSome(ResultAt(t).value)
            /\ ResultAt(t).ok <=> ResultAt(t).kind = "ok"
            /\ (BodyRead(t) /\ StatusOf(t) = StatusOK) =>
                  IF MatchesSchema(tasks[t].op, BodyText(t))
                  THEN /\ ResultAt(t).ok
                       /\ tasks[t].op \in {"get_models", "get_model_with_params"} =>
                            ResultAt(t).value =
                                Json_GetModelsBody(BodyText(t))
                       /\ tasks[t].op = "get_model_by_id" =>
                            ResultAt(t).value = Json_Model(BodyText(t))
                       /\ tasks[t].op = "get_message_completed" =>
                            ResultAt(t).value =
                                Json_ResponseBodyAnthropic(BodyText(t))
                  ELSE /\ ~ResultAt(t).ok
                       /\ ResultAt(t).kind = "parse"

C2_Witness ==
    \E t \in Tasks :
        /\ Returned(t) /\ tasks[t].op = "get_models"
        /\ tasks[t].status = Some(StatusOK)
        /\ BodyRead(t) /\ BodyText(t) = <<Doc(ListJson(JBool(FALSE), <<>>))>>
        /\ ResultAt(t).ok
        /\ Unwrap(ResultAt(t).value).data = <<>>
        /\ Unwrap(ResultAt(t).value).first_id = None
        /\ Unwrap(ResultAt(t).value).has_more = FALSE

\* C3: a call has handed exactly one request to send() when it returns,
\* whatever it returns.
C3_OneAttempt ==
    \A t \in Tasks : tasks[t].pc # "idle" => tasks[t].attempts = 1

C3_Witness ==
    \E t \in Tasks :
        /\ Returned(t) /\ tasks[t].attempts = 1
        /\ ~ResultAt(t).ok /\ ResultAt(t).kind = "transport"
        /\ tasks[t].status = None

\* C4: every POST of get_message_completed carries anthropic-version,
\* x-api-key and content-type: application/json, whichever constructor built
\* the client.
C4_PostCarriesRequiredHeaders ==
    \A t \in Tasks :
        (tasks[t].op = "get_message_completed" /\ IsSome(tasks[t].req)) =>
            LET h == Unwrap(tasks[t].req).headers
            IN /\ ANTHROPIC_VERSION \in DOMAIN h
               /\ HasHeader(h, X_API_KEY, Unwrap(client).api_key)
               /\ HasHeader(h, CONTENT_TYPE, "application/json")

\* C5: the anthropic-version header of every request is the string of the
\* version configured on the client at the time.
C5_VersionHeaderIsConfigured ==
    \A t \in Tasks :
        IsSome(tasks[t].req) =>
            HasHeader(Unwrap(tasks[t].req).headers, ANTHROPIC_VERSION,
                      VersionToString(Unwrap(client).version))

\* C6: no construction and no request aborts, and a failed read of the body
\* of a response other than 200 is not returned as an API error with an empty
\* message.
C6_FailuresAreReturned ==
    /\ ctor.outcome # "panic"
    /\ \A t \in Tasks :
        (Returned(t) /\ IsSome(tasks[t].status) /\ StatusOf(t) # StatusOK
            /\ ~BodyRead(t)) =>
            /\ ~ResultAt(t).ok
            /\ ResultAt(t).kind # "api"

ConfigFromEnv ==
    [api_key |-> env.value, api_url |-> ANTHROPIC_API_URL,
     version |-> "Latest", api_version |-> "V1"]

ClientHasConfig(c, cfg) ==
    /\ c.api_key = cfg.api_key
    /\ c.api_url = cfg.api_url
    /\ c.version = cfg.version
    /\ c.api_version = cfg.api_version

\* C7, as stated: default construction fails with a configuration error when
\* the variable is absent, and yields the configuration of the variable's key
\* whenever it is present.
C7_DefaultWheneverPresent ==
    /\ ctor.op = "Config::default" =>
          IF env.set
          THEN ctor.outcome = "ok" /\ config = Some(ConfigFromEnv)
          ELSE ctor.outcome = "err" /\ ctor.err = "VarError"
    /\ ctor.op = "AnthropicClient::default" =>
          IF env.set
          THEN ctor.outcome = "ok" /\ IsSome(client)
               /\ ClientHasConfig(Unwrap(client), ConfigFromEnv)
          ELSE ctor.outcome = "err" /\ ctor.err = "VarError"

\* C7, amended: default construction fails with a configuration error, as a
\* value, when the variable is absent or not Unicode; Config::default yields
\* the configuration of the key otherwise; AnthropicClient::default yields a
\* client of that configuration when the key is a legal header value, and an
\* error as a value when it is not.
C7_DefaultConstruction ==
    /\ ctor.op = "Config::default" =>
          IF env.set /\ env.unicode
          THEN ctor.outcome = "ok" /\ config = Some(ConfigFromEnv)
          ELSE ctor.outcome = "err" /\ ctor.err = "VarError"
    /\ ctor.op = "AnthropicClient::default" =>
          IF env.set /\ env.unicode
          THEN IF ValidHeaderValue(env.value)
               THEN ctor.outcome = "ok" /\ IsSome(client)
                    /\ ClientHasConfig(Unwrap(client), ConfigFromEnv)
               ELSE ctor.outcome = "err" /\ ctor.err = "InvalidHeaderValue"
                    /\ client = None
          ELSE ctor.outcome = "err" /\ ctor.err = "VarError" /\ client = None

C7_Witness ==
    /\ ctor.op = "AnthropicClient::default"
    /\ ~env.set
    /\ ctor.outcome = "err" /\ ctor.err = "VarError"
    /\ client = None

ParamNames == {"before_id", "after_id", "limit"}

\* The value a present parameter is sent with.
ParamValue(p, k) == IF k = "limit" THEN ToString(Unwrap(p.limit)) ELSE Unwrap(p[k])

\* C8: the query of get_model_with_params has one pair, with the caller's
\* value, for each parameter that is present and none for one that is absent;
\* with all three absent the request is the one get_models sends.
C8_QueryOmitsAbsent ==
    \A t \in Tasks :
        (tasks[t].op = "get_model_with_params" /\ IsSome(tasks[t].req)) =>
            LET p == Unwrap(tasks[t].arg.params)
                q == Unwrap(tasks[t].req).query
            IN /\ \A i \in 1..Len(q) : q[i].key \in ParamNames
               /\ \A k \in ParamNames :
                    IF IsSome(p[k])
                    THEN /\ Cardinality({i \in 1..Len(q) : q[i].key = k}) = 1
                         /\ \E i \in 1..Len(q) :
                                q[i].key = k /\ q[i].value = ParamValue(p, k)
                    ELSE \A i \in 1..Len(q) : q[i].key # k
               /\ p = GetModelsQueryParams_default =>
                    Unwrap(tasks[t].req) = get_models_request(Unwrap(client))

C8_Witness ==
    \E t \in Tasks :
        /\ tasks[t].op = "get_model_with_params" /\ IsSome(tasks[t].req)
        /\ Unwrap(tasks[t].arg.params) = GetModelsQueryParams_new(None, None, Some(1))
        /\ Unwrap(tasks[t].req).query = <<[key |-> "limit", value |-> "1"]>>

IsBody == IsSome(subject) /\ Unwrap(subject).ty = "RequestBodyAnthropic"
IsSource == IsSome(subject) /\ Unwrap(subject).ty = "Source"

\* C9, as stated: every RequestBody decodes from its encoding to an equal
\* value.
C9_RoundTripEveryBody ==
    (IsBody /\ IsSome(decoded)) => Unwrap(decoded) = Some(Unwrap(subject).v)

FiniteOrAbsent(temperature) ==
    ~IsSome(temperature) \/ Unwrap(temperature).cls = "finite"

\* C9, amended: every RequestBody whose temperature is absent or finite
\* decodes from its encoding to an equal value: the messages in order, each
\* with its role, its content variant and its blocks' variants in order.
C9_RoundTrip ==
    (IsBody /\ IsSome(decoded) /\ FiniteOrAbsent(Unwrap(subject).v.temperature)) =>
        Unwrap(decoded) = Some(Unwrap(subject).v)

C9_Witness ==
    /\ IsBody /\ IsSome(decoded)
    /\ LET ms == Unwrap(subject).v.messages
       IN /\ Len(ms) = 2
          /\ ms[1].role = "Assistant" /\ ms[1].content.tag = "ContentArray"
          /\ Len(ms[1].content.val) = 2
          /\ ms[1].content.val[1].tag = "Image"
          /\ ms[1].content.val[2].tag = "Text"
          /\ ms[2].role = "User" /\ ms[2].content.tag = "String"
    /\ Unwrap(subject).v.temperature = Some(Finite("0.1"))
    /\ Unwrap(decoded) = Some(Unwrap(subject).v)

\* C10: the encoding of every Source has "base64" as its type field.
C10_SourceTypeIsBase64 ==
    (IsSource /\ IsSome(encoded)) => Unwrap(encoded).v["type"] = JStr("base64")

Applied(fn) == call.fn = fn

\* The role the data model gives a role string: User for "user", Assistant
\* for "assistant", User for every other string.
RoleOfString(s) == IF s = "assistant" THEN "Assistant" ELSE "User"

\* C11: Role::new and the JSON decoding of a message's role field both give
\* User for "user", Assistant for "assistant" and User for every other
\* string; User is encoded as "user" and Assistant as "assistant".
C11_RoleDecoding ==
    /\ Applied("Role::new") => call.ret = RoleOfString(call.arg)
    /\ (Applied("Messages::deserialize") /\ call.arg.v["role"].t = "str") =>
            /\ IsSome(call.ret)
            /\ Unwrap(call.ret).role = RoleOfString(call.arg.v["role"].v)
    /\ Applied("Role::serialize") =>
            call.ret = JStr(IF call.arg = "User" THEN "user" ELSE "assistant")

\* C12: new_content_array_text returns the ContentArray variant of as many
\* blocks as it was given strings, the i-th a Text block of the i-th string
\* whose type is "text".
C12_TextArrayInOrder ==
    Applied("MessageContent::new_content_array_text") =>
        /\ call.ret.tag = "ContentArray"
        /\ Len(call.ret.val) = Len(call.arg)
        /\ \A i \in 1..Len(call.arg) :
              /\ call.ret.val[i].tag = "Text"
              /\ call.ret.val[i].val.text = call.arg[i]
              /\ call.ret.val[i].val.content_type = "text"

C12_Witness ==
    /\ Applied("MessageContent::new_content_array_text")
    /\ call.arg = <<"a", "b", "c">>
    /\ call.ret = ContentArray(<<Text([text |-> "a", content_type |-> "text"]),
                                 Text([text |-> "b", content_type |-> "text"]),
                                 Text([text |-> "c", content_type |-> "text"])>>)

\* The shapes of the two content blocks: the fields each struct requires.
IsTextShape(j) ==
    IsStruct(j, 2) /\ IsStr(Field(j, "text", 1)) /\ IsStr(Field(j, "type", 2))
IsImageShape(j) ==
    IsStruct(j, 2) /\ SourceFieldSchema(Field(j, "source", 1))
    /\ IsStr(Field(j, "type", 2))

\* r is what the first of the shapes Text, Image that j has gives: the Text
\* block of j's text and type, the Image block of j's source and type, or an
\* error when j has neither shape.
FirstMatch(j, r) ==
    IF IsTextShape(j)
    THEN r = Some(Text([text |-> Unwrap(Field(j, "text", 1)).v,
                        content_type |-> Unwrap(Field(j, "type", 2)).v]))
    ELSE IF IsImageShape(j)
    THEN /\ IsSome(r) /\ Unwrap(r).tag = "Image"
         /\ Unwrap(r).val.content_type = Unwrap(Field(j, "type", 2)).v
         /\ Unwrap(r).val.source.content_type =
                Unwrap(Field(Unwrap(Field(j, "source", 1)), "type", 1)).v
         /\ Unwrap(r).val.source.data =
                Unwrap(Field(Unwrap(Field(j, "source", 1)), "data", 2)).v
    ELSE r = None

\* C14: the variants of the untagged unions are tried in declaration order.
\* A JSON string decodes to MessageContent::String; a JSON array decodes to
\* ContentArray, block by block, and fails when one of its elements does.  A
\* content block with string "text" and "type" decodes to Text whatever its
\* type says and whether or not it has a source; one that is no Text but has
\* a well-formed source and a string "type" decodes to Image; one of neither
\* shape fails to decode.
C14_FirstMatchWins ==
    /\ Applied("ContentType::deserialize") => FirstMatch(call.arg, call.ret)
    /\ (Applied("MessageContent::deserialize") /\ call.arg.t = "str") =>
            call.ret = Some(String(call.arg.v))
    /\ (Applied("MessageContent::deserialize") /\ call.arg.t = "arr") =>
            IF \A i \in 1..Len(call.arg.v) :
                    IsTextShape(call.arg.v[i]) \/ IsImageShape(call.arg.v[i])
            THEN /\ IsSome(call.ret) /\ Unwrap(call.ret).tag = "ContentArray"
                 /\ Len(Unwrap(call.ret).val) = Len(call.arg.v)
                 /\ \A i \in 1..Len(call.arg.v) :
                       FirstMatch(call.arg.v[i], Some(Unwrap(call.ret).val[i]))
            ELSE call.ret = None

\* A block with "text", "source" and the type "image" was decoded: to Text.
C14_Witness ==
    /\ Applied("ContentType::deserialize")
    /\ call.arg = BlockObject(Some(JStr("a")), Some(JStr("image")),
                              Some(Source_serialize(Source_new("aGk=", "Png"))))
    /\ call.ret = Some(Text([text |-> "a", content_type |-> "image"]))

\* A call in progress has the request its own arguments give with the
\* client, and a call that returned has the outcome that its own operation
\* gives for the response to its own request.
OwnOutcome(t) ==
    /\ tasks[t].pc # "idle" =>
            tasks[t].req = Some(RequestOf(Unwrap(client), tasks[t].op, tasks[t].arg))
    /\ tasks[t].pc = "done" =>
            tasks[t].result =
                Some(IF IsSome(tasks[t].status)
                     THEN ResultOf(tasks[t].op, StatusOf(t), Unwrap(tasks[t].body))
                     ELSE TransportError)

\* A step of a request operation, of whichever task.
RequestStep == tasks' # tasks

\* C13: the tasks' calls on one client interleave safely: no step of a
\* request operation changes the client (its key, base URL, protocol version
\* and API version), and every call has the request and the outcome that
\* its own arguments and the response to its own request determine.
C13_ConcurrentUseIsSafe ==
    /\ [](\A t \in Tasks : OwnOutcome(t))
    /\ [][RequestStep => client' = client]_vars

\* Two calls overlap: one has returned its model while the other, called
\* with another operation, has been answered 404 and is reading the body.
C13_Witness ==
    /\ tasks["A"].pc = "done" /\ tasks["A"].op = "get_model_by_id"
    /\ ResultAt("A").ok
    /\ tasks["B"].pc = "body" /\ tasks["B"].op = "get_message_completed"
    /\ StatusOf("B") = 404
    /\ \A t \in Tasks : OwnOutcome(t)

====
